---- MODULE Spec2Model ----
(***************************************************************************)
(* A model of hhh.py, the Streamlit YouTube downloader: the two URL        *)
(* regular expressions (_validate_url, _clean_url), the two extractor      *)
(* wrappers (_get_video_info, _download_video), the download directory     *)
(* and the run() script as Streamlit re-executes it on every interaction.  *)
(*                                                                         *)
(* Text that the code slices, matches or rewrites (URLs, titles, file      *)
(* names) is a sequence of one-character strings; text the code only       *)
(* formats and shows (messages) is a TLA+ string.                          *)
(***************************************************************************)
EXTENDS Integers, Sequences, FiniteSets, TLC

VARIABLES
    pc,             \* position of the harness of the URL / call specifications
    inp,            \* the parts the URL under test is assembled from
    valid,          \* what _validate_url returned
    cleaned,        \* what _clean_url returned
    recleaned,      \* what _clean_url returned on its own result
    scn,            \* what the extractor (pytube) does during one call
    ret,            \* what the wrapper under test returned
    log,            \* records the last step appended to youtube_downloader.log
    calls,          \* extractor operations invoked by the last step, in order
    dir,            \* the download directory on disk
    session_state,  \* st.session_state: only the key debug_info is ever used
    url_text,       \* content of the "Enter YouTube URL" text input
    show_debug,     \* the "Show Debug Info" checkbox
    screen,         \* elements the last run of run() rendered, in order
    pressed,        \* the interaction that triggered the last run
    runs,           \* number of script runs so far
    fs,             \* what the filesystem did during the last run
    last_fail       \* history: message of the most recent failed metadata fetch

vars == <<pc, inp, valid, cleaned, recleaned, scn, ret, log, calls, dir,
          session_state, url_text, show_debug, screen, pressed, runs, fs,
          last_fail>>

urlVars == <<inp, valid, cleaned, recleaned>>
callVars == <<scn, ret>>
uiVars == <<url_text, show_debug, screen, pressed, runs, fs, last_fail>>

None == "None"

-----------------------------------------------------------------------------
(* Python's re.match, for the two patterns of the program: a pattern is a   *)
(* sequence of elements, each element yields the positions it can end at    *)
(* in the order the backtracking matcher tries them.                        *)

\* s has lit at position p (positions are 1-based)
HasAt(s, p, lit) ==
    /\ p + Len(lit) - 1 <= Len(s)
    /\ SubSeq(s, p, p + Len(lit) - 1) = lit

\* number of characters from position p on that "." matches (no newline)
RECURSIVE DotRun(_, _)
DotRun(s, p) ==
    IF p > Len(s) \/ s[p] = "\n" THEN 0 ELSE 1 + DotRun(s, p + 1)

\* a literal alternative
Lit(l) == [dotplus |-> FALSE, lit |-> l]
\* the alternative .+ followed by a literal
DotPlusLit(l) == [dotplus |-> TRUE, lit |-> l]

\* the ends of one alternative at p: a literal has one, ".+lit" tries the
\* longest run of "." first (greedy) and gives characters back one by one
AltEnds(a, s, p) ==
    IF ~a.dotplus
    THEN IF HasAt(s, p, a.lit) THEN <<p + Len(a.lit)>> ELSE <<>>
    ELSE LET n == DotRun(s, p)
             desc == [i \in 1..n |-> n - i + 1]
             Fits(k) == HasAt(s, p + k, a.lit)
             ks == SelectSeq(desc, Fits)
         IN  [i \in 1..Len(ks) |-> p + ks[i] + Len(a.lit)]

RECURSIVE AltsEnds(_, _, _, _)
AltsEnds(alts, j, s, p) ==
    IF j > Len(alts) THEN <<>>
    ELSE AltEnds(alts[j], s, p) \o AltsEnds(alts, j + 1, s, p)

\* n characters of a class: chars, or its complement when neg
ClassEnds(e, s, p) ==
    IF /\ p + e.n - 1 <= Len(s)
       /\ \A i \in p..(p + e.n - 1) : (s[i] \in e.chars) = ~e.neg
    THEN <<p + e.n>>
    ELSE <<>>

ElemEnds(e, s, p) ==
    IF e.kind = "alt" THEN AltsEnds(e.alts, 1, s, p) ELSE ClassEnds(e, s, p)

\* the end of the first match of elements k.. of re at p, 0 when none
RECURSIVE MatchFrom(_, _, _, _)
RECURSIVE TryEnds(_, _, _, _, _)
MatchFrom(re, k, s, p) ==
    IF k > Len(re) THEN p
    ELSE TryEnds(re, k, s, ElemEnds(re[k], s, p), 1)
TryEnds(re, k, s, ends, j) ==
    IF j > Len(ends) THEN 0
    ELSE LET r == MatchFrom(re, k + 1, s, ends[j])
         IN  IF r # 0 THEN r ELSE TryEnds(re, k, s, ends, j + 1)

\* re.match(pattern, s): anchored at the start, 0 when there is no match
ReMatch(re, s) == MatchFrom(re, 1, s, 1)

Alt(alts) == [kind |-> "alt", alts |-> alts]
Opt(l) == Alt(<<Lit(l), Lit(<<>>)>>)
One(l) == Alt(<<Lit(l)>>)
Class(chars, n) == [kind |-> "class", neg |-> FALSE, chars |-> chars, n |-> n]
NotClass(chars, n) == [kind |-> "class", neg |-> TRUE, chars |-> chars, n |-> n]

\* length of a video id in both patterns
IdLen == 11

\* [A-Za-z0-9_-]
IdChars ==
    {"A", "B", "C", "D", "E", "F", "G", "H", "I", "J", "K", "L", "M", "N", "O",
     "P", "Q", "R", "S", "T", "U", "V", "W", "X", "Y", "Z", "a", "b", "c", "d",
     "e", "f", "g", "h", "i", "j", "k", "l", "m", "n", "o", "p", "q", "r", "s",
     "t", "u", "v", "w", "x", "y", "z", "0", "1", "2", "3", "4", "5", "6", "7",
     "8", "9", "_", "-"}

\* https?://  (the optional s is tried first)
HttpScheme ==
    Alt(<<Lit(<<"h", "t", "t", "p", "s", ":", "/", "/">>),
          Lit(<<"h", "t", "t", "p", ":", "/", "/">>)>>)
\* (https?://)?
OptHttpScheme ==
    Alt(<<Lit(<<"h", "t", "t", "p", "s", ":", "/", "/">>),
          Lit(<<"h", "t", "t", "p", ":", "/", "/">>),
          Lit(<<>>)>>)
\* (youtube|youtu)\.(com|be)/
HostElems ==
    <<Alt(<<Lit(<<"y", "o", "u", "t", "u", "b", "e">>),
            Lit(<<"y", "o", "u", "t", "u">>)>>),
      One(<<".">>),
      Alt(<<Lit(<<"c", "o", "m">>), Lit(<<"b", "e">>)>>),
      One(<<"/">>)>>

WatchV == <<"w", "a", "t", "c", "h", "?", "v", "=">>

\* (https?://(?:www\.)?(?:youtube|youtu)\.(?:com|be)/(?:watch\?v=)?[A-Za-z0-9_-]{11})
clean_regex ==
    <<HttpScheme, Opt(<<"w", "w", "w", ".">>)>> \o HostElems
        \o <<Opt(WatchV), Class(IdChars, IdLen)>>

\* (https?://)?(www\.)?(youtube|youtu)\.(com|be)/(watch\?v=|embed/|v/|.+\?v=)?([^&=%\?]{11})
youtube_regex ==
    <<OptHttpScheme, Opt(<<"w", "w", "w", ".">>)>> \o HostElems
        \o <<Alt(<<Lit(WatchV),
                   Lit(<<"e", "m", "b", "e", "d", "/">>),
                   Lit(<<"v", "/">>),
                   DotPlusLit(<<"?", "v", "=">>),
                   Lit(<<>>)>>),
             NotClass({"&", "=", "%", "?"}, IdLen)>>

\* (faulty variant: the url is cut at its last "&")
clean_url_rsplit(url) ==
    LET amps == {i \in 1..Len(url) : url[i] = "&"}
    IN  IF amps = {} THEN url
        ELSE SubSeq(url, 1, (CHOOSE i \in amps : \A j \in amps : j <= i) - 1)

\* (faulty variant: the pattern without (?:www\.)?)
clean_url_no_www(url) ==
    LET end == ReMatch(<<HttpScheme>> \o HostElems
                           \o <<Opt(WatchV), Class(IdChars, IdLen)>>, url)
    IN  IF end # 0 THEN SubSeq(url, 1, end - 1) ELSE url

\* _clean_url: group 1 of the match (the whole match), else the url itself
clean_url(url) ==
    LET end == ReMatch(clean_regex, url)
    IN  IF end # 0 THEN SubSeq(url, 1, end - 1) ELSE url

\* (faulty variant: the pattern without its scheme and host part)
validate_url_any_host(url) ==
    ReMatch(<<NotClass({"&", "=", "%", "?"}, IdLen)>>, url) # 0

\* _validate_url
validate_url(url) == ReMatch(youtube_regex, url) # 0

\* the debug records the two functions log
CleanLog(url) == <<[level |-> "DEBUG", msg |-> "Cleaned URL", arg |-> clean_url(url)]>>
ValidateLog(url) ==
    <<[level |-> "DEBUG", msg |-> "URL validation result",
       arg |-> <<url, validate_url(url)>>]>>

-----------------------------------------------------------------------------
(* The URLs the regular expressions are exercised on: every combination of  *)
(* the parts below, which covers the watch, short, embed and "?v=" forms,   *)
(* foreign hosts, ids that are too short or hold characters outside the id  *)
(* class, and trailing query parameters or free text.                       *)

Https == <<"h", "t", "t", "p", "s", ":", "/", "/">>
Www == <<"w", "w", "w", ".">>
YoutuBe == <<"y", "o", "u", "t", "u", ".", "b", "e", "/">>
Schemes == {<<>>, <<"h", "t", "t", "p", ":", "/", "/">>, Https}
Wwws == {<<>>, Www}
YouTubeHosts ==
    {<<"y", "o", "u", "t", "u", "b", "e", ".", "c", "o", "m", "/">>,
     YoutuBe,
     <<"y", "o", "u", "t", "u", "b", "e", ".", "b", "e", "/">>,
     <<"y", "o", "u", "t", "u", ".", "c", "o", "m", "/">>}
Hosts == YouTubeHosts \cup {<<"v", "i", "m", "e", "o", ".", "c", "o", "m", "/">>, <<>>}
Paths ==
    {<<>>, WatchV, <<"e", "m", "b", "e", "d", "/">>, <<"v", "/">>,
     <<"p", "l", "a", "y", "l", "i", "s", "t", "?", "v", "=">>}
Ids ==
    {<<>>,
     <<"d", "Q", "w", "4", "w", "9", "W", "g", "X", "c", "Q">>,
     <<"a", "-", "_", "4", "w", "9", "W", "g", "X", "c", "Z">>,
     <<"d", "Q", "w", "4", "w", "9", "W", ".", "X", "c", "Q">>,
     <<"d", "Q", "w", "4", "w", "9", "W", "g", "X", "c">>}
Tails ==
    {<<>>,
     <<"&", "t", "=", "1">>,
     <<"?", "f", "e", "a", "t", "u", "r", "e", "=", "s", "h", "a", "r", "e">>,
     <<"&", "a", "=", "1", "&", "b", "=", "2">>,
     <<"Z", "Z">>,
     <<"n", "o", "t", " ", "a", " ", "u", "r", "l">>}

\* https://www.youtube.com/watch?v=
CanonicalPrefix ==
    <<"h", "t", "t", "p", "s", ":", "/", "/", "w", "w", "w", ".", "y", "o", "u",
      "t", "u", "b", "e", ".", "c", "o", "m", "/", "w", "a", "t", "c", "h", "?",
      "v", "=">>

UrlInputs ==
    [scheme : Schemes, www : Wwws, host : Hosts, path : Paths, id : Ids, tail : Tails]

\* the text of an input, and the same text cut right after the id
UpToId(i) == i.scheme \o i.www \o i.host \o i.path \o i.id
Url(i) == UpToId(i) \o i.tail

NoInput == [scheme |-> <<>>, www |-> <<>>, host |-> <<>>, path |-> <<>>,
            id |-> <<>>, tail |-> <<>>]
NoScenario == [op |-> None]
NoReturn == [op |-> None]
EmptyDir == [exists |-> TRUE, files |-> {}]
NoDir == [exists |-> FALSE, files |-> {}]
NoFs == [rm |-> None, mk |-> None, before |-> NoDir]

\* the parts of the state a specification does not use
UrlIdle ==
    /\ inp = NoInput /\ valid = FALSE /\ cleaned = <<>> /\ recleaned = <<>>
CallIdle ==
    /\ scn = NoScenario /\ ret = NoReturn
UiIdle ==
    /\ url_text = <<>> /\ show_debug = FALSE /\ screen = <<>>
    /\ pressed = None /\ runs = 0 /\ fs = NoFs /\ last_fail = None
SessionIdle ==
    /\ log = <<>> /\ calls = <<>> /\ dir = EmptyDir
    /\ session_state = [debug_info |-> None]

UrlInit ==
    /\ pc = "start"
    /\ inp \in UrlInputs
    /\ valid = FALSE /\ cleaned = <<>> /\ recleaned = <<>>
    /\ CallIdle /\ UiIdle /\ SessionIdle

\* _validate_url(url)
Validate ==
    /\ pc = "start"
    /\ valid' = validate_url(Url(inp))
    /\ log' = ValidateLog(Url(inp))
    /\ pc' = "validated"
    /\ UNCHANGED <<inp, cleaned, recleaned, calls, dir, session_state>>
    /\ UNCHANGED callVars /\ UNCHANGED uiVars

\* _clean_url(url)
Clean ==
    /\ pc = "validated"
    /\ cleaned' = clean_url(Url(inp))
    /\ log' = CleanLog(Url(inp))
    /\ pc' = "cleaned"
    /\ UNCHANGED <<inp, valid, recleaned, calls, dir, session_state>>
    /\ UNCHANGED callVars /\ UNCHANGED uiVars

\* _clean_url(_clean_url(url))
CleanAgain ==
    /\ pc = "cleaned"
    /\ recleaned' = clean_url(cleaned)
    /\ log' = CleanLog(cleaned)
    /\ pc' = "recleaned"
    /\ UNCHANGED <<inp, valid, cleaned, calls, dir, session_state>>
    /\ UNCHANGED callVars /\ UNCHANGED uiVars

UrlNext == Validate \/ Clean \/ CleanAgain

SpecUrl == UrlInit /\ [][UrlNext]_vars

-----------------------------------------------------------------------------
(* The extractor: what pytube's YouTube object does during one call of a    *)
(* wrapper.  A scenario fixes which operation fails, with which exception,  *)
(* and what the operations that succeed return.                              *)

\* the exception classes the wrappers can meet, each with its base class
ExcParent ==
    [VideoPrivate |-> "VideoUnavailable", VideoUnavailable |-> "PytubeError",
     RegexMatchError |-> "PytubeError", PytubeError |-> "Exception",
     HTTPError |-> "URLError", URLError |-> "Exception",
     KeyError |-> "Exception", Exception |-> "BaseException"]

RECURSIVE IsInstance(_, _)
IsInstance(cls, base) ==
    \/ cls = base
    \/ cls \in DOMAIN ExcParent /\ IsInstance(ExcParent[cls], base)

\* one exception value of each class: text is str(e)
Excs ==
    {[class |-> "VideoUnavailable", text |-> "dQw4w9WgXcQ is unavailable", code |-> 0, reason |-> ""],
     [class |-> "VideoPrivate", text |-> "dQw4w9WgXcQ is a private video", code |-> 0, reason |-> ""],
     [class |-> "HTTPError", text |-> "HTTP Error 404: Not Found", code |-> 404, reason |-> "Not Found"],
     [class |-> "RegexMatchError", text |-> "regex_search: could not find match", code |-> 0, reason |-> ""],
     [class |-> "PytubeError", text |-> "Exception while accessing title", code |-> 0, reason |-> ""],
     [class |-> "URLError", text |-> "<urlopen error timed out>", code |-> 0, reason |-> "timed out"],
     [class |-> "KeyError", text |-> "'videoDetails'", code |-> 0, reason |-> ""]}

NoExc == [class |-> None, text |-> "", code |-> 0, reason |-> ""]
NoFailure == [at |-> None, exc |-> NoExc, partial |-> FALSE]

\* the failures of a call whose operations are steps: any step, any
\* exception; a failed retrieval may leave a partial file behind
Failures(steps) ==
    {NoFailure}
        \cup [at : steps, exc : Excs, partial : {FALSE}]
        \cup [at : steps \cap {"download"}, exc : Excs, partial : {TRUE}]

\* the streams a video may offer; resolution <<>> is Python's None
Stream(itag, ext, prog, res) ==
    [itag |-> itag, ext |-> ext, progressive |-> prog, resolution |-> res]
P360 == <<"3", "6", "0", "p">>
P720 == <<"7", "2", "0", "p">>
P1080 == <<"1", "0", "8", "0", "p">>
P1440 == <<"1", "4", "4", "0", "p">>
P2160 == <<"2", "1", "6", "0", "p">>
StreamPool ==
    <<Stream("17", "mp4", TRUE, <<>>),
      Stream("18", "mp4", TRUE, P360),
      Stream("22", "mp4", TRUE, P720),
      Stream("23", "mp4", TRUE, P720),
      Stream("37", "mp4", TRUE, P1080),
      Stream("46", "webm", TRUE, P2160),
      Stream("271", "mp4", FALSE, P1440)>>

\* the stream lists the extractor may return: the pool's streams whose
\* position is in idx, in the pool's (the provider's) order
PickStreams(idx) ==
    LET In(k) == k \in idx
        ks == SelectSeq([k \in 1..Len(StreamPool) |-> k], In)
    IN  [j \in 1..Len(ks) |-> StreamPool[ks[j]]]
StreamLists == {PickStreams(idx) : idx \in SUBSET (1..Len(StreamPool))}

Rep(c, n) == [i \in 1..n |-> c]

\* longest part of the title that goes into the file name
TitleMax == 50

Titles ==
    {<<>>,
     <<"S", "o", "n", "g">>,
     <<"a", "/", "b", "\\", "c">>,
     Rep("x", TitleMax - 1) \o <<"/", "y", "z">>,
     Rep("x", TitleMax) \o <<"/", "z">>}

\* datetime.now().strftime('%Y%m%d_%H%M%S')
Timestamps == {<<"2", "0", "2", "6", "1", "1", "0", "4", "_", "1", "2", "0", "0", "0", "0">>}

\* the URLs the wrappers are called with
CallUrls ==
    {CanonicalPrefix \o <<"d", "Q", "w", "4", "w", "9", "W", "g", "X", "c", "Q">>
        \o <<"&", "t", "=", "1">>,
     Https \o YoutuBe \o <<"a", "-", "_", "4", "w", "9", "W", "g", "X", "c", "Z">>}

DownloadSteps == {"YouTube", "check_availability", "streams", "title", "download"}
InfoSteps ==
    {"YouTube", "check_availability", "title", "author", "length", "views", "publish_date"}

DownloadScenarios ==
    [op : {"download"}, url : CallUrls, fail : Failures(DownloadSteps),
     title : Titles, streams : StreamLists, now : Timestamps]

\* length in seconds, views, publish date: 0 and NoDate are Python's falsy values
NoDate == [y |-> 0, m |-> 0, d |-> 0]
InfoScenarios ==
    [op : {"info"}, url : CallUrls, fail : Failures(InfoSteps),
     title : {"", "Song"}, author : {"", "Jane Doe"}, length : {0, 59, 125},
     views : {0, 999, 1234567},
     publish_date : {NoDate, [y |-> 2009, m |-> 10, d |-> 5]}]

-----------------------------------------------------------------------------
(* _download_video and _get_video_info.                                     *)

Range(f) == {f[i] : i \in DOMAIN f}
Reverse(s) == [i \in 1..Len(s) |-> s[Len(s) - i + 1]]
Take(s, n) == SubSeq(s, 1, IF Len(s) < n THEN Len(s) ELSE n)

\* str.replace(old, new) for single characters
ReplaceChar(s, old, new) == [i \in 1..Len(s) |-> IF s[i] = old THEN new ELSE s[i]]

LogRec(level, msg, arg) == [level |-> level, msg |-> msg, arg |-> arg]
Call(op, arg) == [op |-> op, arg |-> arg]

\* DOWNLOAD_PATH = "downloads"
DOWNLOAD_PATH == <<"d", "o", "w", "n", "l", "o", "a", "d", "s">>

\* os.path.join(a, b): an absolute b replaces a
PathJoin(a, b) == IF Len(b) > 0 /\ b[1] = "/" THEN b ELSE a \o <<"/">> \o b

\* int("".join(filter(str.isdigit, label))): the key pytube's order_by sorts
\* string attributes by
DigitChars == {"0", "1", "2", "3", "4", "5", "6", "7", "8", "9"}
DigitVal(c) == CHOOSE d \in 0..9 : ToString(d) = c
RECURSIVE DigitsValue(_, _, _)
DigitsValue(s, k, acc) ==
    IF k > Len(s) THEN acc
    ELSE DigitsValue(s, k + 1,
                     IF s[k] \in DigitChars THEN 10 * acc + DigitVal(s[k]) ELSE acc)
ResolutionKey(st) == DigitsValue(st.resolution, 1, 0)

\* sorted(): stable, ascending by key
InsertByKey(sorted, x) ==
    LET k == Cardinality({i \in 1..Len(sorted) :
                              ResolutionKey(sorted[i]) <= ResolutionKey(x)})
    IN  SubSeq(sorted, 1, k) \o <<x>> \o SubSeq(sorted, k + 1, Len(sorted))

RECURSIVE SortedByResolution(_)
SortedByResolution(s) ==
    IF Len(s) = 0 THEN <<>>
    ELSE InsertByKey(SortedByResolution(SubSeq(s, 1, Len(s) - 1)), s[Len(s)])

\* (faulty variant: the filter without progressive=True)
FilterAnyMp4(streams) ==
    LET Keep(st) == st.ext = "mp4"
    IN  SelectSeq(streams, Keep)

\* .filter(file_extension='mp4', progressive=True)
FilterProgressiveMp4(streams) ==
    LET Keep(st) == st.ext = "mp4" /\ st.progressive
    IN  SelectSeq(streams, Keep)

\* .order_by('resolution'): streams without a resolution are dropped, the
\* rest sorted by the number in the label
OrderByResolution(streams) ==
    LET Has(st) == st.resolution # <<>>
    IN  SortedByResolution(SelectSeq(streams, Has))

NoStream == Stream(None, None, FALSE, <<>>)

\* .desc().first(): the head of the reversed list, None when it is empty
DescFirst(streams) ==
    IF Len(streams) = 0 THEN NoStream ELSE Reverse(streams)[1]

\* lines 91-94: the stream _download_video selects
SelectStream(streams) == DescFirst(OrderByResolution(FilterProgressiveMp4(streams)))

\* line 97: the title, or video_<timestamp> when the title is empty
TitleOrPlaceholder(s) ==
    IF s.title # <<>> THEN s.title ELSE <<"v", "i", "d", "e", "o", "_">> \o s.now

\* (faulty variant: the file name without the two replace calls)
FilenameUnreplaced(title, resolution) ==
    Take(title, TitleMax) \o <<"_">> \o resolution \o <<".", "m", "p", "4">>

\* lines 98-99: the file name
Filename(title, resolution) ==
    ReplaceChar(
        ReplaceChar(Take(title, TitleMax) \o <<"_">> \o resolution
                        \o <<".", "m", "p", "4">>, "/", "_"),
        "\\", "_")

\* (faulty variant: PytubeError caught before its subclass VideoUnavailable)
DownloadHandlersSwapped == <<"PytubeError", "VideoUnavailable", "HTTPError", "Exception">>

\* the except clauses of _download_video in source order
DownloadHandlers == <<"VideoUnavailable", "HTTPError", "PytubeError", "Exception">>

\* the first except clause that takes the exception, 0 when it escapes
FirstHandler(handlers, exc) ==
    LET hit == {i \in 1..Len(handlers) : IsInstance(exc.class, handlers[i])}
    IN  IF hit = {} THEN 0 ELSE CHOOSE i \in hit : \A j \in hit : i <= j

DownloadMessage(handler, exc) ==
    CASE handler = "VideoUnavailable" -> "Video is unavailable or restricted"
      [] handler = "HTTPError" ->
             "HTTP Error " \o ToString(exc.code) \o ": " \o exc.reason
      [] handler = "PytubeError" -> "Pytube error: " \o exc.text
      [] handler = "Exception" -> "Unexpected error: " \o exc.text

DownloadErrorLog(handler, exc) ==
    CASE handler = "VideoUnavailable" -> "Video is unavailable or restricted"
      [] handler = "HTTPError" ->
             "HTTP Error " \o ToString(exc.code) \o ": " \o exc.reason
      [] handler = "PytubeError" -> "Pytube error: " \o exc.text
      [] handler = "Exception" -> "Unexpected download error: " \o exc.text

\* the extractor operations of a call, up to and including the one that fails
Executed(planned, fail) ==
    IF \E i \in 1..Len(planned) : planned[i].op = fail.at
    THEN SubSeq(planned, 1,
                CHOOSE i \in 1..Len(planned) :
                    /\ planned[i].op = fail.at
                    /\ \A j \in 1..(i - 1) : planned[j].op # fail.at)
    ELSE planned

DownloadReturn(ok, filepath, message, raised) ==
    [op |-> "download", ok |-> ok, filepath |-> filepath, message |-> message,
     raised |-> raised]

\* _download_video(url) under scenario s with the directory in state d:
\* what it returns, logs, asks of the extractor and leaves on disk
download_video(s, d) ==
    LET clean == clean_url(s.url)
        stream == SelectStream(s.streams)
        title == TitleOrPlaceholder(s)
        actual_resolution ==
            IF stream.resolution # <<>> THEN stream.resolution
            ELSE <<"u", "n", "k", "n", "o", "w", "n">>
        filename == Filename(title, actual_resolution)
        filepath == PathJoin(DOWNLOAD_PATH, filename)
        planned ==
            <<Call("YouTube", clean), Call("check_availability", <<>>),
              Call("streams", <<>>)>>
            \o (IF stream = NoStream THEN <<>>
                ELSE <<Call("title", <<>>)>>
                     \o (IF s.title # <<>> THEN <<Call("title", <<>>)>> ELSE <<>>)
                     \o <<Call("download",
                               [itag |-> stream.itag, output_path |-> DOWNLOAD_PATH,
                                filename |-> filename])>>)
        done == Executed(planned, s.fail)
        failed == Len(done) > 0 /\ done[Len(done)].op = s.fail.at
        h == FirstHandler(DownloadHandlers, s.fail.exc)
        written == [exists |-> TRUE, files |-> d.files \cup {filename}]
    IN  IF failed
        THEN [ret |-> IF h = 0
                      THEN DownloadReturn(FALSE, <<>>, "", s.fail.exc.class)
                      ELSE DownloadReturn(FALSE, <<>>,
                               DownloadMessage(DownloadHandlers[h], s.fail.exc), None),
              log |-> CleanLog(s.url)
                      \o (IF h = 0 THEN <<>>
                          ELSE <<LogRec("ERROR",
                                   DownloadErrorLog(DownloadHandlers[h], s.fail.exc),
                                   <<>>)>>),
              calls |-> done,
              dir |-> IF s.fail.at = "download" /\ s.fail.partial THEN written ELSE d]
        ELSE IF stream = NoStream
        THEN [ret |-> DownloadReturn(FALSE, <<>>, "No suitable stream found", None),
              log |-> CleanLog(s.url),
              calls |-> planned,
              dir |-> d]
        ELSE [ret |-> DownloadReturn(TRUE, filepath, "", None),
              log |-> CleanLog(s.url)
                      \o <<LogRec("INFO", "Download successful",
                                  <<filepath, actual_resolution>>)>>,
              calls |-> planned,
              dir |-> written]

\* f"{n:02d}", f"{n:,}"
Pad2(n) == IF n < 10 THEN "0" \o ToString(n) ELSE ToString(n)
Pad3(n) == IF n < 10 THEN "00" \o ToString(n) ELSE Pad2(n)
RECURSIVE Commas(_)
Commas(n) ==
    IF n < 1000 THEN ToString(n)
    ELSE Commas(n \div 1000) \o "," \o Pad3(n % 1000)

\* lines 64-70: the record of a successful fetch, each field defaulted
InfoOf(s) ==
    [title |-> IF s.title # "" THEN s.title ELSE "Unknown Title",
     author |-> IF s.author # "" THEN s.author ELSE "Unknown Author",
     length |-> IF s.length # 0
                THEN ToString(s.length \div 60) \o ":" \o Pad2(s.length % 60)
                ELSE "Unknown",
     views |-> IF s.views # 0 THEN Commas(s.views) ELSE "Unknown",
     publish_date |-> IF s.publish_date # NoDate
                      THEN ToString(s.publish_date.y) \o "-" \o Pad2(s.publish_date.m)
                               \o "-" \o Pad2(s.publish_date.d)
                      ELSE "Unknown"]

\* lines 76-82: the record of a failed fetch
ErrorInfo ==
    [title |-> "Error retrieving info", author |-> "N/A", length |-> "N/A",
     views |-> "N/A", publish_date |-> "N/A"]

\* (faulty variant: only the extractor library's own errors are caught)
InfoHandlersPytubeOnly == <<"PytubeError">>

\* the except clause of _get_video_info
InfoHandlers == <<"Exception">>

\* line 74: the level the failure is logged at
InfoFailureLevel == "DEBUG"

\* line 75: what a failed fetch leaves in st.session_state
SetDebugInfo(ss, exc) ==
    [ss EXCEPT !.debug_info = "Metadata retrieval error: " \o exc.text]

\* (faulty variant: a successful fetch resets the diagnostic)
KeepDebugInfoCleared(ss) == [ss EXCEPT !.debug_info = None]

\* a successful fetch does not touch st.session_state
KeepDebugInfo(ss) == ss

\* _get_video_info(url) under scenario s with st.session_state ss: what it
\* returns, logs, asks of the extractor and leaves in st.session_state
get_video_info(s, ss) ==
    LET clean == clean_url(s.url)
        planned ==
            <<Call("YouTube", clean), Call("check_availability", <<>>),
              Call("title", <<>>), Call("author", <<>>), Call("length", <<>>),
              Call("views", <<>>), Call("publish_date", <<>>)>>
        done == Executed(planned, s.fail)
        failed == Len(done) > 0 /\ done[Len(done)].op = s.fail.at
        h == FirstHandler(InfoHandlers, s.fail.exc)
    IN  IF failed /\ h = 0
        THEN [ret |-> [op |-> "info", info |-> ErrorInfo, raised |-> s.fail.exc.class],
              log |-> CleanLog(s.url), calls |-> done, session_state |-> ss]
        ELSE IF failed
        THEN [ret |-> [op |-> "info", info |-> ErrorInfo, raised |-> None],
              log |-> CleanLog(s.url)
                      \o <<LogRec(InfoFailureLevel,
                                  "Metadata retrieval failed: " \o s.fail.exc.text,
                                  <<>>)>>,
              calls |-> done,
              session_state |-> SetDebugInfo(ss, s.fail.exc)]
        ELSE [ret |-> [op |-> "info", info |-> InfoOf(s), raised |-> None],
              log |-> CleanLog(s.url)
                      \o <<LogRec("INFO",
                                  "Successfully retrieved info for: " \o InfoOf(s).title,
                                  <<>>)>>,
              calls |-> done,
              session_state |-> KeepDebugInfo(ss)]

-----------------------------------------------------------------------------
(* The two wrappers called directly, once, under every scenario.            *)

CallInit ==
    /\ pc = "start"
    /\ scn \in DownloadScenarios \cup InfoScenarios
    /\ ret = NoReturn
    /\ session_state \in
           {[debug_info |-> None]}
               \cup {[debug_info |-> "Metadata retrieval error: earlier"] :
                         x \in {scn.op} \cap {"info"}}
    /\ log = <<>> /\ calls = <<>> /\ dir = EmptyDir
    /\ UrlIdle /\ UiIdle

CallDownloadVideo ==
    /\ pc = "start" /\ scn.op = "download"
    /\ \E r \in {download_video(scn, dir)} :
           /\ ret' = r.ret /\ log' = r.log /\ calls' = r.calls /\ dir' = r.dir
    /\ pc' = "returned"
    /\ UNCHANGED <<scn, session_state>>
    /\ UNCHANGED urlVars /\ UNCHANGED uiVars

CallGetVideoInfo ==
    /\ pc = "start" /\ scn.op = "info"
    /\ \E r \in {get_video_info(scn, session_state)} :
           /\ ret' = r.ret /\ log' = r.log /\ calls' = r.calls
           /\ session_state' = r.session_state
    /\ pc' = "returned"
    /\ UNCHANGED <<scn, dir>>
    /\ UNCHANGED urlVars /\ UNCHANGED uiVars

CallNext == CallDownloadVideo \/ CallGetVideoInfo

SpecCalls == CallInit /\ [][CallNext]_vars

-----------------------------------------------------------------------------
(* run(): the script Streamlit executes from the top on every interaction.  *)
(* A button reads True only in the run its own press triggered.             *)

Elem(kind, text) == [kind |-> kind, text |-> text, arg |-> <<>>]
ElemArg(kind, text, arg) == [kind |-> kind, text |-> text, arg |-> arg]

\* str(e) of the OSError a filesystem call raises
FsErrorText == "[Errno 13] Permission denied: 'downloads'"

\* (faulty variant: the directory is not created)
setup_download_directory_skip(d, mk) ==
    [dir |-> d, log |-> <<>>, screen |-> <<>>]

\* _setup_download_directory(), the directory being d: os.makedirs with
\* exist_ok=True creates it unless the filesystem refuses (mk = "error")
setup_download_directory(d, mk) ==
    IF d.exists \/ mk = "ok"
    THEN [dir |-> [exists |-> TRUE, files |-> d.files],
          log |-> <<LogRec("DEBUG", "Download directory ensured", DOWNLOAD_PATH)>>,
          screen |-> <<>>]
    ELSE [dir |-> d,
          log |-> <<LogRec("ERROR",
                           "Failed to create download directory: " \o FsErrorText,
                           <<>>)>>,
          screen |-> <<Elem("error", "Failed to initialize download directory")>>]

\* lines 136-144, the directory being d: shutil.rmtree either removes the
\* tree or raises, leaving the files in f.left behind (it raises too when the
\* directory does not exist)
clear_downloads(d, f) ==
    IF d.exists /\ f.rm = "ok"
    THEN LET s == setup_download_directory(NoDir, f.mk)
         IN  [dir |-> s.dir,
              log |-> s.log \o <<LogRec("INFO", "Download folder cleared by user", <<>>)>>,
              screen |-> s.screen \o <<Elem("success", "Download folder cleared!")>>,
              fs |-> [rm |-> "ok", mk |-> f.mk, before |-> d]]
    ELSE [dir |-> [exists |-> d.exists, files |-> d.files \cap f.left],
          log |-> <<LogRec("ERROR", "Failed to clear downloads: " \o FsErrorText, <<>>)>>,
          screen |-> <<Elem("error", "Failed to clear downloads: " \o FsErrorText)>>,
          fs |-> [rm |-> "error", mk |-> "skipped", before |-> d]]

NoClear(d) == [dir |-> d, log |-> <<>>, screen |-> <<>>, fs |-> NoFs]

\* lines 164-172: the "Download Now" button and what a press of it does
DownloadNow(download_now, dl, info) ==
    IF ~download_now
    THEN [screen |-> <<>>, log |-> <<>>, calls |-> <<>>, aborted |-> FALSE]
    ELSE IF dl.ret.raised # None
    THEN [screen |-> <<Elem("exception", dl.ret.raised)>>, log |-> dl.log,
          calls |-> dl.calls, aborted |-> TRUE]
    ELSE IF dl.ret.ok
    THEN [screen |-> <<ElemArg("success", "Downloaded successfully to: ",
                               dl.ret.filepath)>>,
          log |-> dl.log \o <<LogRec("INFO", "Video downloaded: " \o info.title, <<>>)>>,
          calls |-> dl.calls, aborted |-> FALSE]
    ELSE [screen |-> <<Elem("error", dl.ret.message)>>,
          log |-> dl.log
                  \o <<LogRec("ERROR", "Download failed: " \o dl.ret.message, <<>>)>>,
          calls |-> dl.calls, aborted |-> FALSE]

\* lines 148-172: the branch of a URL that passed validation; g is the
\* outcome of _get_video_info, dl that of _download_video if it is called
Analysis(show_debug_box, download_now, g, dl, d) ==
    IF g.ret.raised # None
    THEN [screen |-> <<Elem("exception", g.ret.raised)>>, log |-> g.log,
          calls |-> g.calls, dir |-> d, session_state |-> g.session_state,
          aborted |-> TRUE]
    ELSE LET b == DownloadNow(download_now, dl, g.ret.info)
         IN  [screen |->
                  <<Elem("subheader", "Video Information"),
                    Elem("write", "**Title:** " \o g.ret.info.title),
                    Elem("write", "**Author:** " \o g.ret.info.author),
                    Elem("write", "**Length:** " \o g.ret.info.length),
                    Elem("write", "**Views:** " \o g.ret.info.views),
                    Elem("write", "**Published:** " \o g.ret.info.publish_date)>>
                  \o (IF show_debug_box /\ g.session_state.debug_info # None
                      THEN <<Elem("warning", "Debug: " \o g.session_state.debug_info)>>
                      ELSE <<>>)
                  \o <<Elem("checkbox", "Force download (if metadata unavailable)"),
                       Elem("button", "Download Now")>>
                  \o b.screen,
              log |-> g.log \o b.log,
              calls |-> g.calls \o b.calls,
              dir |-> IF download_now THEN dl.dir ELSE d,
              session_state |-> g.session_state,
              aborted |-> b.aborted]

\* line 147 taken: the validation is logged, then the branch an runs
Validated(url, is, an) ==
    [screen |-> an.screen, log |-> ValidateLog(url) \o an.log, calls |-> an.calls,
     dir |-> an.dir, session_state |-> an.session_state, aborted |-> an.aborted,
     scn |-> [is EXCEPT !.url = url]]

\* lines 146-175
Analyze(url, show_debug_box, analyze_button, download_now, ss, d, is, ds) ==
    IF ~(url # <<>> /\ analyze_button)
    THEN [screen |-> <<>>, log |-> <<>>, calls |-> <<>>, dir |-> d,
          session_state |-> ss, aborted |-> FALSE, scn |-> NoScenario]
    ELSE IF validate_url(url)
    THEN Validated(url, is,
                   Analysis(show_debug_box, download_now,
                            get_video_info([is EXCEPT !.url = url], ss),
                            download_video([ds EXCEPT !.url = url], d), d))
    ELSE [screen |-> <<Elem("error", "Please enter a valid YouTube URL")>>,
          log |-> ValidateLog(url) \o <<LogRec("WARNING", "Invalid URL entered", url)>>,
          calls |-> <<>>, dir |-> d, session_state |-> ss, aborted |-> FALSE,
          scn |-> NoScenario]

\* lines 120-134 and 177-181: what every run renders around the two branches
Header ==
    <<Elem("title", "YouTube Downloader"), Elem("button", "Clear Downloads"),
      Elem("checkbox", "Show Debug Info"), Elem("text_input", "Enter YouTube URL"),
      Elem("button", "Analyze Video")>>
Footer == <<Elem("markdown", "Note")>>

\* run() with the widgets reading url, show_debug_box and the three buttons,
\* the filesystem behaving as f and the extractor as is and ds
Rendered(c, a) ==
    [screen |-> Header \o c.screen \o a.screen
                    \o (IF a.aborted THEN <<>> ELSE Footer),
     log |-> c.log \o a.log,
     calls |-> a.calls,
     dir |-> a.dir,
     session_state |-> a.session_state,
     fs |-> c.fs,
     scn |-> a.scn]

AfterClear(c, url, show_debug_box, analyze_button, download_now, is, ds) ==
    Rendered(c, Analyze(url, show_debug_box, analyze_button, download_now,
                        session_state, c.dir, is, ds))

Run(url, show_debug_box, clear_button, analyze_button, download_now, f, is, ds) ==
    AfterClear(IF clear_button THEN clear_downloads(dir, f) ELSE NoClear(dir),
               url, show_debug_box, analyze_button, download_now, is, ds)

-----------------------------------------------------------------------------
(* A browser session: the user types, ticks and presses; each interaction   *)
(* re-runs the script.                                                      *)

\* script runs a session is followed for
MaxRuns == 4

NotAUrl == <<"n", "o", "t", " ", "a", " ", "u", "r", "l">>
ValidSessionUrls ==
    {CanonicalPrefix \o <<"d", "Q", "w", "4", "w", "9", "W", "g", "X", "c", "Q">>
        \o <<"&", "t", "=", "1">>,
     Https \o YoutuBe \o <<"d", "Q", "w", "4", "w", "9", "W", "g", "X", "c", "Q">>
        \o <<"?", "f", "e", "a", "t", "u", "r", "e", "=", "s", "h", "a", "r", "e">>}
SessionUrls ==
    ValidSessionUrls
        \cup {<<>>, NotAUrl,
              <<"v", "i", "m", "e", "o", ".", "c", "o", "m", "/">>
                  \o <<"d", "Q", "w", "4", "w", "9", "W", "g", "X", "c", "Q">>}

\* files found in the download directory when the session starts
OldFiles == {<<"o", "l", "d", ".", "m", "p", "4">>, <<"S", "o", "n", "g", "_", "7", "2", "0", "p", ".", "m", "p", "4">>}

\* what the filesystem may do during a clear: the deletion succeeds and the
\* re-creation succeeds or not, or the deletion fails leaving some files
FsOutcomes ==
    [rm : {"ok"}, mk : {"ok", "error"}, left : {{}}]
        \cup [rm : {"error"}, mk : {"ok"}, left : SUBSET OldFiles]

SessionInfoScenarios ==
    [op : {"info"}, url : {<<>>},
     fail : {NoFailure}
                \cup [at : {"check_availability"},
                      exc : {e \in Excs : e.class = "VideoUnavailable"},
                      partial : {FALSE}]
                \cup [at : {"title"}, exc : {e \in Excs : e.class = "HTTPError"},
                      partial : {FALSE}],
     title : {"", "Song"}, author : {"Jane Doe"}, length : {125},
     views : {1234567}, publish_date : {[y |-> 2009, m |-> 10, d |-> 5]}]

SessionDownloadScenarios ==
    [op : {"download"}, url : {<<>>}, fail : {NoFailure},
     title : {<<"S", "o", "n", "g">>}, streams : {PickStreams({2, 3}), <<>>},
     now : Timestamps]

\* the session after the constructor and the first run of the script
SessionInit ==
    /\ pc = "session"
    /\ url_text = <<>> /\ show_debug = FALSE
    /\ screen = Header \o Footer
    /\ pressed = None /\ runs = 0 /\ fs = NoFs /\ last_fail = None
    /\ dir \in {[exists |-> TRUE, files |-> F] : F \in SUBSET OldFiles}
    /\ session_state = [debug_info |-> None]
    /\ log = <<LogRec("DEBUG", "Download directory ensured", DOWNLOAD_PATH)>>
    /\ calls = <<>>
    /\ UrlIdle /\ CallIdle

OnScreen(kind, text) ==
    \E i \in 1..Len(screen) : screen[i].kind = kind /\ screen[i].text = text

\* one run of the script, triggered by interaction p
Rerun(p, url, show_debug_box, clear_button, analyze_button, download_now) ==
    /\ pc = "session" /\ runs < MaxRuns
    /\ \E f \in IF clear_button THEN FsOutcomes
                ELSE {[rm |-> "ok", mk |-> "ok", left |-> {}]},
          is \in IF analyze_button THEN SessionInfoScenarios
                 ELSE {CHOOSE x \in SessionInfoScenarios : TRUE},
          ds \in IF download_now THEN SessionDownloadScenarios
                 ELSE {CHOOSE x \in SessionDownloadScenarios : TRUE} :
         \E r \in {Run(url, show_debug_box, clear_button, analyze_button,
                       download_now, f, is, ds)} :
            /\ screen' = r.screen /\ log' = r.log /\ calls' = r.calls
            /\ dir' = r.dir /\ session_state' = r.session_state
            /\ fs' = r.fs /\ scn' = r.scn
            /\ last_fail' =
                   IF r.scn # NoScenario /\ is.fail.at # None
                   THEN "Metadata retrieval error: " \o is.fail.exc.text
                   ELSE last_fail
    /\ url_text' = url /\ show_debug' = show_debug_box
    /\ pressed' = p /\ runs' = runs + 1
    /\ UNCHANGED <<pc, ret>> /\ UNCHANGED urlVars

TypeUrl ==
    \E u \in SessionUrls \ {url_text} : Rerun("url", u, show_debug, FALSE, FALSE, FALSE)

ToggleDebug == Rerun("debug", url_text, ~show_debug, FALSE, FALSE, FALSE)

PressClear == Rerun("clear", url_text, show_debug, TRUE, FALSE, FALSE)

PressAnalyze == Rerun("analyze", url_text, show_debug, FALSE, TRUE, FALSE)

\* the two widgets that exist only while the analysis is on screen
ToggleForce ==
    /\ OnScreen("checkbox", "Force download (if metadata unavailable)")
    /\ Rerun("force", url_text, show_debug, FALSE, FALSE, FALSE)

PressDownloadNow ==
    /\ OnScreen("button", "Download Now")
    /\ Rerun("download_now", url_text, show_debug, FALSE, FALSE, TRUE)

Next ==
    \/ TypeUrl \/ ToggleDebug \/ PressClear \/ PressAnalyze
    \/ ToggleForce \/ PressDownloadNow

Spec == SessionInit /\ [][Next]_vars

-----------------------------------------------------------------------------
(* Claims about the two URL functions (checked under SpecUrl).              *)

IsVideoId(id) == Len(id) = IdLen /\ \A k \in 1..Len(id) : id[k] \in IdChars
StartsWith(s, c) == Len(s) > 0 /\ s[1] = c

\* <host>/watch?v=<11 chars>&<anything>, any scheme/host prefix the validator takes
WatchForm(i) ==
    /\ i.host \in YouTubeHosts /\ i.path = WatchV
    /\ IsVideoId(i.id) /\ StartsWith(i.tail, "&")
\* https://youtu.be/<11 chars>?<anything>
ShortForm(i) ==
    /\ i.scheme = Https /\ i.www = <<>> /\ i.host = YoutuBe /\ i.path = <<>>
    /\ IsVideoId(i.id) /\ StartsWith(i.tail, "?")

Canonical(id) == CanonicalPrefix \o id

Cleaned == pc \in {"cleaned", "recleaned"}

C7_Idempotent == (pc = "recleaned") => (recleaned = cleaned)

C7_Witness ==
    /\ pc = "recleaned" /\ cleaned # Url(inp) /\ recleaned = cleaned

-----------------------------------------------------------------------------
(* Claims about the two wrappers (checked under SpecCalls).                 *)

Returned(op) == pc = "returned" /\ scn.op = op

CallOps == {calls[i].op : i \in 1..Len(calls)}
TimesCalled(op) == Cardinality({i \in 1..Len(calls) : calls[i].op = op})
\* the retrievals the call asked for: stream, directory and file name of each
Retrievals ==
    {calls[i].arg : i \in {j \in 1..Len(calls) : calls[j].op = "download"}}

\* the extractor operation named by the scenario was reached and raised
Failed ==
    /\ scn.fail.at # None
    /\ Len(calls) > 0 /\ calls[Len(calls)].op = scn.fail.at

\* the extractor listed its streams without failing
Listed == scn.fail.at \notin {"YouTube", "check_availability", "streams"}

\* the progressive MP4 streams among those the extractor reported
Candidates ==
    {st \in Range(scn.streams) : st.progressive /\ st.ext = "mp4"}
Labelled == {st \in Candidates : st.resolution # <<>>}

\* C3: only progressive MP4 streams are considered, the highest resolution
\* among them is the one retrieved, and with no progressive MP4 stream the
\* call returns (False, "No suitable stream found"), asks for no retrieval
\* and writes no file.
C3_ProgressiveMp4Only ==
    Returned("download") =>
        /\ \A c \in Retrievals :
               \E st \in Labelled :
                   /\ st.itag = c.itag
                   /\ \A o \in Labelled : ResolutionKey(o) <= ResolutionKey(st)
        /\ (Listed /\ scn.fail.at # "title" /\ Labelled # {}) => Retrievals # {}
        /\ (Listed /\ Candidates = {}) =>
               /\ ret = DownloadReturn(FALSE, <<>>, "No suitable stream found", None)
               /\ Retrievals = {}
               /\ dir = EmptyDir

C3_Witness ==
    /\ Returned("download") /\ Listed
    /\ Candidates = {} /\ Len(scn.streams) >= 2
    /\ ret.message = "No suitable stream found" /\ dir.files = {}

\* the message each class of failure must produce
ExpectedMessage(exc) ==
    IF exc.class \in {"VideoUnavailable", "VideoPrivate"}
    THEN "Video is unavailable or restricted"
    ELSE IF exc.class = "HTTPError"
    THEN "HTTP Error " \o ToString(exc.code) \o ": " \o exc.reason
    ELSE IF exc.class \in {"PytubeError", "RegexMatchError"}
    THEN "Pytube error: " \o exc.text
    ELSE "Unexpected error: " \o exc.text

\* C4: whatever extractor operation fails, _download_video returns
\* (False, message) with the message of the failure's class and raises
\* nothing; every extractor operation is attempted at most once and none is
\* attempted after the failure.
C4_FailuresReturned ==
    Returned("download") =>
        /\ ret.raised = None
        /\ Failed =>
               /\ ret.ok = FALSE
               /\ ret.message = ExpectedMessage(scn.fail.exc)
               /\ \E i \in 1..Len(log) : log[i].level = "ERROR"
        /\ \A op \in {"YouTube", "check_availability", "streams", "download"} :
               TimesCalled(op) <= 1
        /\ scn.fail.at \in CallOps => calls[Len(calls)].op = scn.fail.at

C4_Witness ==
    /\ Returned("download") /\ Failed
    /\ scn.fail.at = "download" /\ scn.fail.exc.class = "HTTPError"
    /\ ret.ok = FALSE /\ ret.message = "HTTP Error 404: Not Found"

\* C5 as stated: a failed fetch returns the error placeholders, raises
\* nothing and logs the failure at error level.
C5_LoggedAtError ==
    (Returned("info") /\ Failed) =>
        /\ ret.info = ErrorInfo /\ ret.raised = None
        /\ \E i \in 1..Len(log) : log[i].level = "ERROR"

\* C5 amended: a failed fetch returns the error placeholders, raises nothing
\* and logs the failure at debug level; nothing is logged at error level.
C5_LoggedAtDebug ==
    (Returned("info") /\ Failed) =>
        /\ ret.info = ErrorInfo /\ ret.raised = None
        /\ \E i \in 1..Len(log) :
               /\ log[i].level = "DEBUG"
               /\ log[i].msg = "Metadata retrieval failed: " \o scn.fail.exc.text
        /\ \A i \in 1..Len(log) : log[i].level # "ERROR"

C5_Witness ==
    /\ Returned("info") /\ Failed
    /\ scn.fail.at = "check_availability" /\ scn.fail.exc.class = "VideoUnavailable"
    /\ ret.info = ErrorInfo

\* the stream a retrieval was asked of
StreamOf(c) == CHOOSE st \in Range(scn.streams) : st.itag = c.itag
HasSeparator(name) == \E i \in 1..Len(name) : name[i] \in {"/", "\\"}
\* the first 50 characters of a title, then _<resolution>.mp4
TitleThenSuffix(title, c) ==
    Take(title, TitleMax) \o <<"_">> \o StreamOf(c).resolution
        \o <<".", "m", "p", "4">>
InDownloadDirectory(path, name) == path = DOWNLOAD_PATH \o <<"/">> \o name

\* C9 as stated: the file name has no / and no \, is the first 50
\* characters of the extractor's title followed by _<resolution>.mp4, and
\* the reported path is that name directly inside the download directory.
C9_TitleThenSuffix ==
    Returned("download") =>
        \A c \in Retrievals :
            /\ ~HasSeparator(c.filename)
            /\ c.filename = TitleThenSuffix(scn.title, c)
            /\ ret.ok => InDownloadDirectory(ret.filepath, c.filename)

\* C9 amended: the file name has no / and no \; it is the first 50
\* characters of the title (of the placeholder video_<timestamp> when the
\* extractor's title is empty) followed by _<resolution>.mp4, with every /
\* and \ replaced by _; the reported path is that name directly inside the
\* download directory.
C9_SafeFilename ==
    Returned("download") =>
        \A c \in Retrievals :
            LET title == IF scn.title = <<>>
                         THEN <<"v", "i", "d", "e", "o", "_">> \o scn.now
                         ELSE scn.title
                raw == TitleThenSuffix(title, c)
            IN  /\ ~HasSeparator(c.filename)
                /\ Len(c.filename) = Len(raw)
                /\ \A i \in 1..Len(raw) :
                       c.filename[i] = IF raw[i] \in {"/", "\\"} THEN "_" ELSE raw[i]
                /\ c.output_path = DOWNLOAD_PATH
                /\ ret.ok => InDownloadDirectory(ret.filepath, c.filename)

C9_Witness ==
    /\ Returned("download") /\ ret.ok
    /\ HasSeparator(Take(scn.title, TitleMax)) /\ Len(scn.title) > TitleMax
    /\ \E c \in Retrievals :
           ~HasSeparator(c.filename) /\ c.filename \in dir.files

-----------------------------------------------------------------------------
(* Claims about a session (checked under Spec).                             *)

InSession == pc = "session"

\* C1: the extractor is called only in a run whose URL made _validate_url
\* return true; a run in which _validate_url returned false shows the
\* invalid-URL error and calls the extractor not at all.
C1_ExtractorBehindValidation ==
    InSession =>
        /\ calls # <<>> =>
               /\ pressed = "analyze" /\ url_text \in ValidSessionUrls
               /\ log[1] = LogRec("DEBUG", "URL validation result", <<url_text, TRUE>>)
        /\ (pressed = "analyze" /\ url_text # <<>> /\ url_text \notin ValidSessionUrls) =>
               /\ log[1] = LogRec("DEBUG", "URL validation result", <<url_text, FALSE>>)
               /\ OnScreen("error", "Please enter a valid YouTube URL")
               /\ calls = <<>>
        /\ pressed # "analyze" => calls = <<>>

C1_Witness ==
    /\ InSession /\ pressed = "analyze" /\ url_text = NotAUrl
    /\ OnScreen("error", "Please enter a valid YouTube URL") /\ calls = <<>>

\* C2: a press of "Download Now", which only an analysis of a valid URL
\* puts on screen, makes the run call _download_video on the cleaned URL and
\* render its success or its error.
C2_DownloadNowDownloads ==
    (InSession /\ pressed = "download_now") =>
        /\ \E i \in 1..Len(calls) :
               /\ calls[i].op = "streams"
               /\ calls[i - 1].op = "check_availability"
               /\ calls[i - 2] = Call("YouTube", clean_url(url_text))
        /\ \E i \in 1..Len(screen) :
               \/ screen[i].kind = "success"
                      /\ screen[i].text = "Downloaded successfully to: "
               \/ screen[i].kind = "error"

\* C8: a clear on an existing non-empty directory leaves it existing and
\* empty when the filesystem raises nothing; when the deletion or the
\* re-creation raises, an error is shown and logged; the run goes on to
\* its end either way.
C8_ClearEmptiesDirectory ==
    (InSession /\ pressed = "clear" /\ fs.before.exists /\ fs.before.files # {}) =>
        /\ (fs.rm = "ok" /\ fs.mk = "ok") => dir = EmptyDir
        /\ fs.rm = "error" =>
               /\ OnScreen("error", "Failed to clear downloads: " \o FsErrorText)
               /\ \E i \in 1..Len(log) : log[i].level = "ERROR"
        /\ (fs.rm = "ok" /\ fs.mk = "error") =>
               /\ OnScreen("error", "Failed to initialize download directory")
               /\ \E i \in 1..Len(log) : log[i].level = "ERROR"
        /\ screen[Len(screen)] = Footer[1]

C8_Witness ==
    /\ InSession /\ pressed = "clear"
    /\ fs.before = [exists |-> TRUE, files |-> OldFiles]
    /\ fs.rm = "ok" /\ fs.mk = "ok" /\ dir = EmptyDir
    /\ OnScreen("success", "Download folder cleared!")

\* C10: debug_info is unset until a metadata fetch fails and from then on
\* is the message of the most recent failed fetch, whatever else the session
\* does; that message is what an analysis shows when the debug box is ticked.
C10_DebugInfoIsLastFailure ==
    InSession =>
        /\ session_state.debug_info = last_fail
        /\ \A i \in 1..Len(screen) :
               screen[i].kind = "warning" =>
                   last_fail # None /\ screen[i].text = "Debug: " \o last_fail
        /\ (/\ pressed = "analyze" /\ url_text \in ValidSessionUrls
            /\ show_debug /\ last_fail # None)
               => OnScreen("warning", "Debug: " \o last_fail)

\* the message of an earlier failure shown by an analysis that succeeded
C10_Witness ==
    /\ InSession /\ pressed = "analyze" /\ show_debug
    /\ scn # NoScenario /\ scn.fail = NoFailure
    /\ last_fail # None /\ session_state.debug_info = last_fail
    /\ OnScreen("warning", "Debug: " \o last_fail)

====
